---- MODULE Spec2Model ----
(***************************************************************************)
(* Model of the interactive quiz of ham-radio-course: the `quiz` command   *)
(* of main.py, select_level and the Quiz class of quiz.py.                 *)
(*                                                                         *)
(* One action per blocking read (typer.prompt or get_key): the action is   *)
(* everything the program does from the moment the input arrives until it  *)
(* blocks on the next read, exits or dies on an uncaught exception.        *)
(***************************************************************************)
EXTENDS Integers, Sequences, FiniteSets, TLC

VARIABLES
    pc,             \* where the program blocks: "level_prompt", "select_level",
                    \* "menu", "question", "results", "review", or a final
                    \* "level_returned", "exited", "crashed"
    filepath,       \* main.quiz / select_level: the chosen bank ("none" before)
    categories,     \* Quiz.categories: title -> questions, in insertion order
    sorted_cats,    \* Quiz.run: the list show_menu returned
    category,       \* Quiz.run: what select_category returned
    questions,      \* Quiz.questions: the working list
    pool,           \* Quiz.questions as select_category left it (before the shuffle)
    questions_answered_incorrectly,
    current_index,
    score,
    current_choices,
    answer_slot,    \* the slot of current_choices that received q["answer"]
                    \* in show_question's shuffle, while that question is
                    \* shown (0 otherwise)
    limit_questions,
    percentage,     \* show_results: the percentage as printed, in tenths
                    \* (-1 outside show_results)
    screens,        \* the views drawn since run_quiz was last entered
    exit_code,      \* process exit code (-1 while running)
    error           \* uncaught exception that ended the process, or "none"

vars == << pc, filepath, categories, sorted_cats, category, questions, pool,
           questions_answered_incorrectly, current_index, score,
           current_choices, answer_slot, limit_questions, percentage,
           screens, exit_code, error >>

----------------------------------------------------------------------------
(* Bounds and program constants *)

\* the large category holds NFill + 1 copies of the filler question
NFill == 20

\* prepare_quiz: self.questions[:20]
QuizLimit == 20

----------------------------------------------------------------------------
(* Question data.  A question is the JSON object of the bank; a field the  *)
(* object lacks is Missing.  Titles are sequences of code points, which is *)
(* what Python compares when it sorts them.                                *)

Missing == "<missing>"

Question(id, a, d1, d2, d3) ==
    [id |-> id, answer |-> a, distractor_1 |-> d1, distractor_2 |-> d2,
     distractor_3 |-> d3]

\* four distinct texts
QAbcd == Question("A-001-001-001", "A", "B", "C", "D")
\* the questions of "Regulation": their three distractors share one text,
\* which keeps the orderings of one question to four
Q1 == Question("B-001-001-001", "A", "B", "B", "B")
Q2 == Question("B-001-001-002", "A", "B", "B", "B")
Q3 == Question("B-001-001-003", "A", "B", "B", "B")
\* a distractor string-equal to the answer
QDup == Question("B-002-001-001", "A", "A", "B", "C")
\* no distractor_3 field
QBad == Question("B-002-001-002", "A", "B", "C", Missing)
\* the filler of the large category: all four texts equal, and every copy
\* the same object, which keeps the orderings of the large pools to one
QFill == Question("B-003-001-001", "A", "A", "A", "A")

TitleRegulation == << 82, 101, 103 >>      \* "Reg"
TitleZed == << 90, 101, 100 >>             \* "Zed"
Titlealpha == << 97, 108, 112 >>           \* "alp"
TitleBig == << 66, 105, 103 >>             \* "Big"
TitleAux == << 65, 117, 120 >>             \* "Aux"
AllCategories == << 65, 108, 108 >>        \* "All Categories"
NoneValue == << -1 >>                      \* Python's None (select_category's return)

Entry(t, qs) == [title |-> t, questions |-> qs]

Fill(n) == [i \in 1..n |-> QFill]

\* What each course file may hold (json.load's result, entries in file order).
Banks ==
    [ basic |->
        { << >>,
          << Entry(TitleRegulation, << Q1, Q2, Q3 >>) >>,
          << Entry(Titlealpha, << QDup >>), Entry(TitleZed, << >>),
             Entry(Titlealpha, << Q1 >>) >> },
      advanced |->
        { << Entry(TitleZed, << QAbcd, QBad >>) >>,
          << Entry(TitleBig, Fill(NFill + 1)),
             Entry(TitleAux, << QFill >>) >> } ]

----------------------------------------------------------------------------
(* Keys and typed lines *)

\* select_category: shifted_digit_map
ShiftedDigitMap ==
    [ k \in { "!", "@", "#", "$", "%", "^", "&", "*", "(", ")" } |->
        CASE k = "!" -> 1 [] k = "@" -> 2 [] k = "#" -> 3 [] k = "$" -> 4
          [] k = "%" -> 5 [] k = "^" -> 6 [] k = "&" -> 7 [] k = "*" -> 8
          [] k = "(" -> 9 [] k = ")" -> 0 ]

AsciiDigitValue ==
    [ k \in { "0", "1", "2", "3", "4", "5", "6", "7", "8", "9" } |->
        CASE k = "0" -> 0 [] k = "1" -> 1 [] k = "2" -> 2 [] k = "3" -> 3
          [] k = "4" -> 4 [] k = "5" -> 5 [] k = "6" -> 6 [] k = "7" -> 7
          [] k = "8" -> 8 [] k = "9" -> 9 ]

AsciiDigits == DOMAIN AsciiDigitValue
ShiftedKeys == DOMAIN ShiftedDigitMap

\* Characters str.isdigit accepts that are not '0'..'9':
\* U+0661 ARABIC-INDIC DIGIT ONE (int() gives 1) and
\* U+00B2 SUPERSCRIPT TWO (int() raises ValueError).
ArabicIndicOne == "U+0661"
SuperscriptTwo == "U+00B2"

\* the keys the keyboard may deliver to get_key
Keys ==
    { "0", "1", "2", "3", "4", "9", "!", "@", "(", ")", "q", "x",
      ArabicIndicOne, SuperscriptTwo }

\* str.isdigit
IsDigit(k) == k \in AsciiDigits \cup { ArabicIndicOne, SuperscriptTwo }

\* int(key) raises ValueError
IntRaises(k) == k \notin AsciiDigits \cup { ArabicIndicOne }

\* int(key), where it does not raise
IntOf(k) == IF k = ArabicIndicOne THEN 1 ELSE AsciiDigitValue[k]

\* lines typed at typer.prompt(type=int); "q" and "x" are not integers
Lines == { "1", "2", "3", "q", "x" }
LineIsInt(l) == l \in AsciiDigits
\* mutant: the two paths swapped
FilesSwapped == [ l \in { "1", "2" } |-> IF l = "1" THEN "advanced" ELSE "basic" ]

\* the files table of quiz() and of select_level
Files == [ l \in { "1", "2" } |-> IF l = "1" THEN "basic" ELSE "advanced" ]

----------------------------------------------------------------------------
(* Pure functions of the code *)

Min(a, b) == IF a < b THEN a ELSE b

\* str < str: lexicographic on code points
RECURSIVE TitleLess(_, _)
TitleLess(a, b) ==
    IF b = << >> THEN FALSE
    ELSE IF a = << >> THEN TRUE
    ELSE IF Head(a) # Head(b) THEN Head(a) < Head(b)
    ELSE TitleLess(Tail(a), Tail(b))

HasTitle(cats, t) == \E i \in 1..Len(cats) : cats[i].title = t

\* self.categories[title]
Lookup(cats, t) == (CHOOSE i \in 1..Len(cats) : cats[i].title = t)

\* Quiz._load: group the bank's entries by title, in order of first appearance
RECURSIVE LoadInto(_, _)
LoadInto(cats, data) ==
    IF data = << >> THEN cats
    ELSE LET e == Head(data)
             withTitle == IF HasTitle(cats, e.title) THEN cats
                          ELSE Append(cats, [title |-> e.title, questions |-> << >>])
             i == Lookup(withTitle, e.title)
         IN LoadInto([withTitle EXCEPT ![i].questions = @ \o e.questions],
                     Tail(data))

Load(data) == LoadInto(<< >>, data)

\* sorted(...): insert e into the sorted list s
RECURSIVE Insert(_, _)
Insert(e, s) ==
    IF s = << >> THEN << e >>
    ELSE IF TitleLess(e.title, Head(s).title) THEN << e >> \o s
    ELSE << Head(s) >> \o Insert(e, Tail(s))

RECURSIVE SortedFrom(_)
SortedFrom(cats) ==
    IF cats = << >> THEN << >> ELSE Insert(Head(cats), SortedFrom(Tail(cats)))

\* mutant: the categories are listed in dict order
SortedCatsUnsorted(cats) == cats

\* show_menu: sorted(self.categories.items())
SortedCats(cats) == SortedFrom(cats)

\* select_category, idx == 0: every category's questions, in dict order
RECURSIVE AllQuestions(_)
AllQuestions(cats) ==
    IF cats = << >> THEN << >>
    ELSE Head(cats).questions \o AllQuestions(Tail(cats))

\* show_menu: total_qs
RECURSIVE TotalQs(_)
TotalQs(cats) ==
    IF cats = << >> THEN 0 ELSE Len(Head(cats).questions) + TotalQs(Tail(cats))

\* select_category, 1 <= idx <= len(sorted_cats)
CategoryPool(cats, sorted, idx) ==
    cats[Lookup(cats, sorted[idx].title)].questions

\* s without the first occurrence of x
RemoveFirst(s, x) ==
    LET i == CHOOSE j \in 1..Len(s) : s[j] = x /\ \A h \in 1..(j - 1) : s[h] # x
    IN SubSeq(s, 1, i - 1) \o SubSeq(s, i + 1, Len(s))

\* random.shuffle: every ordering of s may come out
RECURSIVE Shuffles(_)
Shuffles(s) ==
    IF s = << >> THEN { << >> }
    ELSE UNION { { << x >> \o t : t \in Shuffles(RemoveFirst(s, x)) } :
                 x \in { s[i] : i \in 1..Len(s) } }

\* mutant: the cut is made whatever the mode
TruncateAlways(s, limit) == SubSeq(s, 1, Min(Len(s), QuizLimit))

\* prepare_quiz: the cut after the shuffle
Truncate(s, limit) == IF limit THEN SubSeq(s, 1, Min(Len(s), QuizLimit)) ELSE s

\* show_question: the list [answer, distractor_1, distractor_2, distractor_3]
ChoicesOf(q) == << q.answer, q.distractor_1, q.distractor_2, q.distractor_3 >>

\* show_question: q[...] raises KeyError
LacksField(q) == \E i \in 1..4 : ChoicesOf(q)[i] = Missing

Perm4 == { p \in [1..4 -> 1..4] : \A i, j \in 1..4 : i # j => p[i] # p[j] }

\* mutant: the choices are shuffled once and the list is kept
OrderingsCached(q) ==
    IF current_choices = << >>
    THEN { [choices |-> [i \in 1..4 |-> ChoicesOf(q)[p[i]]],
            slot |-> (CHOOSE i \in 1..4 : p[i] = 1)] : p \in Perm4 }
    ELSE { [choices |-> current_choices, slot |-> 1] }

\* show_question: random.shuffle(choices); each outcome with the slot the
\* first element of the list (the answer) landed in
Orderings(q) ==
    { [choices |-> [i \in 1..4 |-> ChoicesOf(q)[p[i]]],
       slot |-> (CHOOSE i \in 1..4 : p[i] = 1)] : p \in Perm4 }

\* check_answer: selected == correct
IsCorrect(selected, correct) == selected = correct

\* mutant: the two texts of the record swapped
RecordSwapped(q, selected, correct) ==
    [question |-> q, your_answer |-> correct, correct_answer |-> selected]

\* check_answer: the dict appended to questions_answered_incorrectly
Record(q, selected, correct) ==
    [question |-> q, your_answer |-> selected, correct_answer |-> correct]

\* mutant: the cursor is left where it was
AdvanceStays(i) == i

\* mutant: the cursor skips a question
AdvanceTwo(i) == i + 2

\* run_quiz: self.current_index += 1
Advance(i) == i + 1

\* mutant: no copy, self.questions is the category's own list
PoolAliasNoCopy(cats, sorted, idx) == Lookup(cats, sorted[idx].title)

\* select_category: self.categories[cat_name].copy() -- the category whose
\* list object self.questions is (0: none, the list is one of its own)
PoolAlias(cats, sorted, idx) == 0

\* show_results: (score / len) * 100 printed with one decimal, in tenths;
\* the format rounds a tie to the even digit
\* mutant: the percentage cut to one decimal, not rounded
PercentTenthsFloor(sc, n) == (sc * 1000) \div n

PercentTenths(sc, n) ==
    LET num == sc * 1000
        lo == num \div n
        r == num % n
    IN IF 2 * r > n \/ (2 * r = n /\ lo % 2 = 1) THEN lo + 1 ELSE lo

View(name, n) == [view |-> name, arg |-> n]

----------------------------------------------------------------------------
(* State after the process starts.  The program is entered through the     *)
(* `quiz` command of main.py; select_level of quiz.py is the single-key    *)
(* level screen, modelled as called on its own.                            *)

Init ==
    /\ pc \in { "level_prompt", "select_level" }
    /\ filepath = "none"
    /\ categories = << >>
    /\ sorted_cats = << >>
    /\ category = NoneValue
    /\ questions = << >>
    /\ pool = << >>
    /\ questions_answered_incorrectly = << >>
    /\ current_index = 0
    /\ score = 0
    /\ current_choices = << >>
    /\ answer_slot = 0
    /\ limit_questions = TRUE
    /\ percentage = -1
    /\ screens = << >>
    /\ exit_code = -1
    /\ error = "none"

quizVars == << questions, pool, questions_answered_incorrectly, current_index,
               score, current_choices, answer_slot, limit_questions,
               percentage, screens >>

\* sys.exit(code) / raise typer.Exit(code) / return from the command
\* mutant: every exit reports success
ExitZero(code) == pc' = "exited" /\ exit_code' = 0 /\ error' = "none"

Exit(code) == pc' = "exited" /\ exit_code' = code /\ error' = "none"

\* an exception nothing catches: traceback, exit status 1
Crash(exc) == pc' = "crashed" /\ exit_code' = 1 /\ error' = exc

----------------------------------------------------------------------------
(* main.py quiz(): typer.prompt("", type=int), the files table, the        *)
(* existence test, Quiz(filepath) and the first show_menu of Quiz.run.     *)

PromptLevel(line, present, data) ==
    /\ pc = "level_prompt"
    /\ IF ~LineIsInt(line)
       THEN \* the prompt rejects the line and asks again
            UNCHANGED vars
       ELSE IF line \notin DOMAIN Files
       THEN /\ Exit(1)
            /\ UNCHANGED << filepath, categories, sorted_cats, category >>
            /\ UNCHANGED quizVars
       ELSE /\ filepath' = Files[line]
            /\ IF ~present
               THEN /\ Exit(1)
                    /\ UNCHANGED << categories, sorted_cats >>
               ELSE /\ categories' = Load(data)
                    /\ sorted_cats' = SortedCats(Load(data))
                    /\ pc' = "menu"
                    /\ UNCHANGED << exit_code, error >>
            /\ UNCHANGED category
            /\ UNCHANGED quizVars

(* quiz.py select_level(): one key; '1' or '2' picks the file, anything    *)
(* else draws the screen again.                                            *)
SelectLevelKey(k, present) ==
    /\ pc = "select_level"
    /\ IF k \in DOMAIN Files
       THEN /\ filepath' = Files[k]
            /\ IF ~present
               THEN Exit(1)
               ELSE pc' = "level_returned" /\ UNCHANGED << exit_code, error >>
       ELSE UNCHANGED << pc, filepath, exit_code, error >>
    /\ UNCHANGED << categories, sorted_cats, category >>
    /\ UNCHANGED quizVars

----------------------------------------------------------------------------
(* Quiz.run_quiz from the `while` test on: show_question for the question  *)
(* at idx, or show_results when the list is used up.  qs, idx, sc are the  *)
(* values of questions, current_index and score at that point, scr the     *)
(* views drawn so far.                                                     *)

QuestionLoop(qs, idx, sc, scr) ==
    IF idx < Len(qs)
    THEN LET q == qs[idx + 1] IN
         IF LacksField(q)
         THEN \* the header and the question text are out, the choices are not
              /\ Crash("KeyError")
              /\ screens' = scr
              /\ answer_slot' = 0
              /\ UNCHANGED << current_choices, percentage >>
         ELSE \E o \in Orderings(q) :
              /\ current_choices' = o.choices
              /\ answer_slot' = o.slot
              /\ screens' = Append(scr, View("question", idx))
              /\ pc' = "question"
              /\ UNCHANGED << percentage, exit_code, error >>
    ELSE IF Len(qs) = 0
         THEN /\ Crash("ZeroDivisionError")
              /\ screens' = scr
              /\ answer_slot' = 0
              /\ UNCHANGED << current_choices, percentage >>
         ELSE /\ percentage' = PercentTenths(sc, Len(qs))
              /\ screens' = Append(scr, View("results", sc))
              /\ pc' = "results"
              /\ answer_slot' = 0
              /\ UNCHANGED << current_choices, exit_code, error >>

\* mutant: prepare_quiz without self.score = 0
StartRunKeepsScore(name, p, limit, alias) ==
    /\ category' = name
    /\ pool' = p
    /\ \E s \in Shuffles(p) :
        /\ categories' = IF alias = 0 THEN categories
                         ELSE [categories EXCEPT ![alias].questions = s]
        /\ questions' = Truncate(s, limit)
        /\ current_index' = 0
        /\ score' = score
        /\ questions_answered_incorrectly' = << >>
        /\ QuestionLoop(Truncate(s, limit), 0, score, << >>)

\* mutant: prepare_quiz without clearing questions_answered_incorrectly
StartRunKeepsLog(name, p, limit, alias) ==
    /\ category' = name
    /\ pool' = p
    /\ \E s \in Shuffles(p) :
        /\ categories' = IF alias = 0 THEN categories
                         ELSE [categories EXCEPT ![alias].questions = s]
        /\ questions' = Truncate(s, limit)
        /\ current_index' = 0
        /\ score' = 0
        /\ questions_answered_incorrectly' = questions_answered_incorrectly
        /\ QuestionLoop(Truncate(s, limit), 0, 0, << >>)

\* select_category returned name with self.questions = p, a list that is
\* the list of category alias (0: of none); run_quiz(name): prepare_quiz,
\* whose shuffle is in place and whose cut makes a new list, then the
\* question loop
StartRun(name, p, limit, alias) ==
    /\ category' = name
    /\ pool' = p
    /\ \E s \in Shuffles(p) :
        /\ categories' = IF alias = 0 THEN categories
                         ELSE [categories EXCEPT ![alias].questions = s]
        /\ questions' = Truncate(s, limit)
        /\ current_index' = 0
        /\ score' = 0
        /\ questions_answered_incorrectly' = << >>
        /\ QuestionLoop(Truncate(s, limit), 0, 0, << >>)

\* select_category: a key with index idx in the digit or the shifted branch
SelectIndex(idx, limit) ==
    /\ limit_questions' = limit
    /\ IF idx = 0
       THEN StartRun(AllCategories, AllQuestions(categories), limit, 0)
       ELSE IF 1 <= idx /\ idx <= Len(sorted_cats)
       THEN StartRun(sorted_cats[idx].title,
                     CategoryPool(categories, sorted_cats, idx), limit,
                     PoolAlias(categories, sorted_cats, idx))
       ELSE \* no branch taken: the loop reads the next key
            UNCHANGED << pc, categories, category, questions, pool,
                         questions_answered_incorrectly, current_index, score,
                         current_choices, answer_slot, percentage, screens,
                         exit_code, error >>

\* mutant: 'q' goes back to the level prompt
MenuQuitToLevel ==
    /\ category' = NoneValue
    /\ pc' = "level_prompt"
    /\ UNCHANGED << exit_code, error >>
    /\ UNCHANGED quizVars

\* select_category returns None: run breaks out of its loop, prints the
\* farewell and returns, and so does the quiz command
MenuQuit ==
    /\ category' = NoneValue
    /\ Exit(0)
    /\ UNCHANGED quizVars

(* A key at the category menu: select_category, and for an accepted key    *)
(* run_quiz up to its first read.                                          *)
MenuKey(k) ==
    /\ pc = "menu"
    /\ UNCHANGED << filepath, sorted_cats >>
    /\ IF k = "q"
       THEN MenuQuit /\ UNCHANGED categories
       ELSE IF IsDigit(k)
       THEN IF IntRaises(k)
            THEN /\ Crash("ValueError")
                 /\ UNCHANGED << categories, category >>
                 /\ UNCHANGED quizVars
            ELSE SelectIndex(IntOf(k), TRUE)
       ELSE IF k \in DOMAIN ShiftedDigitMap
       THEN SelectIndex(ShiftedDigitMap[k], FALSE)
       ELSE /\ UNCHANGED << pc, categories, category, exit_code, error >>
            /\ UNCHANGED quizVars

\* mutant: 'q' breaks out of the question loop, into show_results
QuestionQuitBreaks ==
    /\ pc' = "results"
    /\ percentage' = PercentTenths(score, Len(questions))
    /\ screens' = Append(screens, View("results", score))
    /\ answer_slot' = 0
    /\ UNCHANGED << sorted_cats, questions_answered_incorrectly, current_index,
                    score, current_choices, exit_code, error >>

\* run_quiz returns False on 'q'; run continues with show_menu
QuestionQuit ==
    /\ pc' = "menu"
    /\ sorted_cats' = SortedCats(categories)
    /\ answer_slot' = 0
    /\ UNCHANGED << questions_answered_incorrectly, current_index, score,
                    current_choices, percentage, screens, exit_code, error >>

\* mutant: any other key leaves the inner loop, the question is shown anew
QuestionOtherKeyRedraws ==
    /\ QuestionLoop(questions, current_index, score, screens)
    /\ UNCHANGED << sorted_cats, questions_answered_incorrectly,
                    current_index, score >>

\* run_quiz, inner `while True`: a key that is neither 'q' nor in 1..4
\* matches no `if`; the loop reads the next key, nothing is drawn
QuestionOtherKey ==
    UNCHANGED << pc, sorted_cats, questions_answered_incorrectly,
                 current_index, score, current_choices, answer_slot,
                 percentage, screens, exit_code, error >>

(* A key while a question is shown: quit, or check_answer, the increment   *)
(* of the index and the next turn of the loop.                             *)
QuestionKey(k) ==
    /\ pc = "question"
    /\ UNCHANGED << filepath, categories, category, pool, limit_questions,
                    questions >>
    /\ IF k = "q"
       THEN QuestionQuit
       ELSE IF k \in { "1", "2", "3", "4" }
       THEN LET q == questions[current_index + 1]
                selected == current_choices[IntOf(k)]
                correct == q.answer
                sc == IF IsCorrect(selected, correct) THEN score + 1 ELSE score
            IN /\ score' = sc
               /\ questions_answered_incorrectly' =
                    IF IsCorrect(selected, correct)
                    THEN questions_answered_incorrectly
                    ELSE Append(questions_answered_incorrectly,
                                Record(q, selected, correct))
               /\ current_index' = Advance(current_index)
               /\ QuestionLoop(questions, Advance(current_index), sc,
                               Append(screens,
                                      View(IF IsCorrect(selected, correct)
                                           THEN "correct" ELSE "wrong",
                                           current_index)))
               /\ UNCHANGED sorted_cats
       ELSE QuestionOtherKey

(* The key show_results waits for: the review if there is one to show,     *)
(* else back to run's show_menu.                                           *)
ResultsKey(k) ==
    /\ pc = "results"
    /\ IF questions_answered_incorrectly # << >>
       THEN /\ pc' = "review"
            /\ screens' = Append(screens,
                                 View("review", Len(questions_answered_incorrectly)))
            /\ UNCHANGED sorted_cats
            /\ UNCHANGED percentage
       ELSE /\ pc' = "menu"
            /\ sorted_cats' = SortedCats(categories)
            /\ percentage' = -1
            /\ UNCHANGED screens
    /\ UNCHANGED << filepath, categories, category, questions, pool,
                    questions_answered_incorrectly, current_index, score,
                    current_choices, answer_slot, limit_questions,
                    exit_code, error >>

(* The key show_incorrect_questions waits for. *)
ReviewKey(k) ==
    /\ pc = "review"
    /\ pc' = "menu"
    /\ sorted_cats' = SortedCats(categories)
    /\ percentage' = -1
    /\ UNCHANGED << filepath, categories, category, questions, pool,
                    questions_answered_incorrectly, current_index, score,
                    current_choices, answer_slot, limit_questions, screens,
                    exit_code, error >>

\* what json.load may return for the file the line names (nothing is
\* loaded for a line that names none)
BanksFor(line) == IF line \in DOMAIN Files THEN Banks[Files[line]] ELSE { << >> }

AtPrompt == \E line \in Lines, present \in BOOLEAN : \E data \in BanksFor(line) :
                PromptLevel(line, present, data)
AtLevel == \E k \in Keys, present \in BOOLEAN : SelectLevelKey(k, present)
AtMenu == \E k \in Keys : MenuKey(k)
AtQuestion == \E k \in Keys : QuestionKey(k)
AtResults == \E k \in Keys : ResultsKey(k)
AtReview == \E k \in Keys : ReviewKey(k)

Next == AtPrompt \/ AtLevel \/ AtMenu \/ AtQuestion \/ AtResults \/ AtReview

Spec == Init /\ [][Next]_vars

----------------------------------------------------------------------------
(* Vocabulary of the properties *)

AnswerKeys == { "1", "2", "3", "4" }

\* run_quiz has been entered and the run's state is in place
InRun ==
    \/ pc \in { "question", "results", "review" }
    \/ pc = "crashed" /\ error \in { "KeyError", "ZeroDivisionError" }

\* a step of the category menu that enters run_quiz
StartsRun(k) == MenuKey(k) /\ k # "q" /\ pc' # "menu" /\ error' # "ValueError"

Count(s, x) == Cardinality({ i \in 1..Len(s) : s[i] = x })
Elems(s) == { s[i] : i \in 1..Len(s) }

\* s holds no element more often than t does
SubBag(s, t) == \A x \in Elems(s) : Count(s, x) <= Count(t, x)
SameBag(s, t) == \A x \in Elems(s) \cup Elems(t) : Count(s, x) = Count(t, x)

----------------------------------------------------------------------------
\* C1: an answer counts as correct exactly when the chosen slot is the slot
\* that received the question's `answer` field at shuffle time; any other
\* slot, one holding an equal distractor text included, leaves the score
\* and appends an incorrect-answer record.
C1_SlotDecidesScore ==
    [][ \A k \in AnswerKeys :
          QuestionKey(k) =>
            IF IntOf(k) = answer_slot
            THEN score' = score + 1
            ELSE /\ score' = score
                 /\ Len(questions_answered_incorrectly')
                      = Len(questions_answered_incorrectly) + 1 ]_vars

\* C2: a run on an empty pool goes straight to results with score 0 of 0
\* and percentage 0; the division by the question count is never reached.
C2_EmptyPoolCompletes ==
    [][ \A k \in Keys :
          (StartsRun(k) /\ pool' = << >>) =>
            /\ pc' = "results"
            /\ score' = 0
            /\ Len(questions') = 0
            /\ percentage' = 0
            /\ error' # "ZeroDivisionError" ]_vars

\* C3: the working list of a run has length min(N, 20) in Limited mode and
\* N in Unlimited mode, N the size of the pool, and is a permutation of the
\* pool cut to its first 20 elements in Limited mode: it holds no question
\* more often than the pool does, and every question of the pool when
\* nothing was cut.
C3_SampleOfPool ==
    InRun =>
      /\ Len(questions) = IF limit_questions
                          THEN Min(Len(pool), 20) ELSE Len(pool)
      /\ SubBag(questions, pool)
      /\ Len(questions) = Len(pool) => SameBag(questions, pool)

\* a Limited run on a pool of more than 20 questions, and the first of its
\* 20 questions shown
C3_Witness ==
    /\ pc = "question"
    /\ limit_questions
    /\ Len(pool) > 20
    /\ Len(questions) = 20

----------------------------------------------------------------------------
\* the key is one the category menu accepts: 'q', or a digit or shifted
\* symbol whose index is at most the number of named categories
Acceptable(k) ==
    \/ k = "q"
    \/ k \in AsciiDigits /\ AsciiDigitValue[k] <= Len(sorted_cats)
    \/ k \in ShiftedKeys /\ ShiftedDigitMap[k] <= Len(sorted_cats)

\* C4: at the category menu a key that is not 'q' nor a digit or shifted
\* symbol with index in 0..optionCount is Invalid: it starts no run and the
\* menu keeps waiting; an acceptable key other than 'q' starts a run.
C4_OnlyMenuKeysAccepted ==
    [][ \A k \in Keys :
          MenuKey(k) =>
            IF Acceptable(k)
            THEN pc' # "menu"
            ELSE /\ pc' = "menu"
                 /\ UNCHANGED << category, questions, pool, current_index,
                                 score, questions_answered_incorrectly,
                                 screens, exit_code, error >> ]_vars

\* C5: a run is capped at 20 questions iff the accepted key was a digit
\* '0'..'9' and covers the whole pool iff it was a shifted symbol, whatever
\* was pressed before.
C5_ModeFromAcceptedKey ==
    [][ \A k \in Keys :
          StartsRun(k) =>
            /\ limit_questions' <=> k \in AsciiDigits
            /\ ~limit_questions' <=> k \in ShiftedKeys
            /\ Len(questions') = IF k \in AsciiDigits
                                 THEN Min(Len(pool'), 20) ELSE Len(pool') ]_vars

\* the position of category i of cats in ascending title order
TitleRank(cats, i) ==
    Cardinality({ j \in 1..Len(cats) : TitleLess(cats[j].title, cats[i].title) }) + 1

RECURSIVE SumSizes(_)
SumSizes(cats) ==
    IF cats = << >> THEN 0 ELSE Len(Head(cats).questions) + SumSizes(Tail(cats))

RECURSIVE SumCount(_, _)
SumCount(cats, x) ==
    IF cats = << >> THEN 0
    ELSE Count(Head(cats).questions, x) + SumCount(Tail(cats), x)

NoResultsShown(scr) ==
    \A i \in 1..Len(scr) : scr[i].view \notin { "results", "review" }

CountViews(scr, name) == Cardinality({ i \in 1..Len(scr) : scr[i].view = name })

\* a step that uses up the working list: the run is Complete
FinishesRun ==
    /\ \/ \E k \in Keys : StartsRun(k)
       \/ \E k \in AnswerKeys : QuestionKey(k)
    /\ current_index' = Len(questions')

\* C9: a run that reaches Complete shows the results; then a non-empty log
\* gives the review once and one more key the category menu, an empty log
\* gives the category menu without the review; never Exit.
C9_CompleteThenMenu ==
    [][ /\ FinishesRun =>
             pc' = "results" /\ CountViews(screens', "results") = 1
        /\ \A k \in Keys :
             ResultsKey(k) =>
               IF questions_answered_incorrectly # << >>
               THEN pc' = "review" /\ CountViews(screens', "review") = 1
               ELSE pc' = "menu" /\ CountViews(screens', "review") = 0
        /\ \A k \in Keys :
             ReviewKey(k) =>
               pc' = "menu" /\ CountViews(screens', "review") = 1 ]_vars

\* C10: 'q' while a question awaits its answer returns to the category menu
\* at once: no results and no review are drawn for the run, whatever score
\* and log it had gathered.
C10_QuitAbortsRun ==
    [][ QuestionKey("q") =>
          /\ pc' = "menu"
          /\ NoResultsShown(screens')
          /\ screens' = screens
          /\ UNCHANGED << score, questions_answered_incorrectly,
                          current_index, questions >> ]_vars

\* back at the menu from a run quit part-way, with a score and a log
C10_Witness ==
    /\ pc = "menu"
    /\ 0 < current_index /\ current_index < Len(questions)
    /\ score > 0
    /\ questions_answered_incorrectly # << >>
    /\ NoResultsShown(screens)

----------------------------------------------------------------------------
(* C11: every run starts afresh.                                           *)

\* the Correct! and Wrong! panels check_answer has drawn in this run
Panels(scr) == CountViews(scr, "correct") + CountViews(scr, "wrong")

\* a step that leaves the menu for a run: a category was chosen
EntersRun ==
    /\ pc = "menu"
    /\ pc' \notin { "menu", "exited" }
    /\ error' # "ValueError"

\* C11: every run starts with cursor 0, score 0 and an empty
\* incorrect-answer log, whatever the run before it left behind; the score
\* and the review a run shows count the answers of that run only: the score
\* is the number of Correct! panels of the run and the review holds one
\* record for each of its Wrong! panels.
C11_RunStartsFresh ==
    /\ [][EntersRun =>
            /\ current_index' = 0
            /\ score' = 0
            /\ questions_answered_incorrectly' = << >>
            /\ Panels(screens') = 0]_vars
    /\ [](pc \in { "results", "review" } =>
            /\ score = CountViews(screens, "correct")
            /\ Len(questions_answered_incorrectly) = CountViews(screens, "wrong")
            /\ \E i \in 1..Len(screens) : screens[i] = View("results", score))

\* a second run has started: the choices an earlier run displayed are still
\* held, the new run is on the empty category, and its counters are reset
C11_Witness ==
    /\ pc = "crashed" /\ error = "ZeroDivisionError"
    /\ category = TitleZed
    /\ current_choices # << >>
    /\ current_index = 0 /\ score = 0
    /\ questions_answered_incorrectly = << >>

----------------------------------------------------------------------------
(* C12: runs leave the loaded categories alone.                            *)

\* the program is past Quiz(filepath): the bank is loaded
Loaded == pc \notin { "level_prompt", "select_level" }

\* C12: once the bank is loaded no step changes the category set: choosing
\* a category, shuffling, cutting to 20, answering, quitting and reviewing
\* leave every category with the same questions in the same order, and
\* every time the menu is on screen it lists the loaded categories, sorted,
\* with the same entries as the time before.
C12_CategoriesUnchanged ==
    /\ [][Loaded => categories' = categories]_vars
    /\ [][(Loaded /\ pc' = "menu") => sorted_cats' = sorted_cats]_vars
    /\ [](pc = "menu" => sorted_cats = SortedCats(categories))

\* back at the menu after a run on one category whose working list was the
\* category's questions in another order, or fewer of them
C12_Witness ==
    /\ pc = "menu"
    /\ category \notin { AllCategories, NoneValue }
    /\ questions # << >>
    /\ questions # pool
    /\ \E i \in 1..Len(categories) :
          categories[i].title = category /\ categories[i].questions = pool

----------------------------------------------------------------------------
(* C13: three questions, two right, one wrong.                             *)

\* the bank of the scenario: one category, "Regulation", of three questions
RegulationBank == << Entry(TitleRegulation, << Q1, Q2, Q3 >>) >>

\* a Limited run over the Regulation bank is complete after two Correct!
\* panels and one Wrong! panel, in whatever order
TwoOfThree ==
    /\ pc \in { "results", "review" }
    /\ categories = Load(RegulationBank)
    /\ limit_questions
    /\ CountViews(screens, "correct") = 2
    /\ CountViews(screens, "wrong") = 1

\* C13: a Limited run over a bank of one category "Regulation" with three
\* questions, answered with two correct and one incorrect answers in any
\* order, shows score 2 of total 3 and the percentage 66.7, and its review
\* holds exactly one entry, whose question id is the id of the question
\* that was answered wrong.
C13_TwoOfThree ==
    TwoOfThree =>
        /\ score = 2
        /\ Len(questions) = 3
        /\ percentage = 667
        /\ \E i \in 1..Len(screens) : screens[i] = View("results", 2)
        /\ Len(questions_answered_incorrectly) = 1
        /\ \E i \in 1..Len(screens) :
              /\ screens[i].view = "wrong"
              /\ questions_answered_incorrectly[1].question.id
                    = questions[screens[i].arg + 1].id
        /\ pc = "review" =>
              screens[Len(screens)] = View("review", 1)

\* the review of such a run is on screen, and the missed question was not
\* the last one asked
C13_Witness ==
    /\ TwoOfThree
    /\ pc = "review"
    /\ questions_answered_incorrectly[1].question # questions[3]

----------------------------------------------------------------------------
(* C14: exit codes.                                                        *)

\* a level is chosen whose bank file does not exist
ChoosesAbsentBank ==
    \/ \E line \in DOMAIN Files : \E data \in BanksFor(line) :
          PromptLevel(line, FALSE, data)
    \/ \E k \in DOMAIN Files : SelectLevelKey(k, FALSE)

\* C14: when the bank of the chosen course is absent the process ends with
\* a non-zero exit code, nothing is loaded and the category menu is not
\* entered then or later; every exit taken from the category menu, the
\* 'q' quit path, has exit code 0.
C14_ExitCodes ==
    /\ [][ChoosesAbsentBank =>
            /\ pc' = "exited"
            /\ exit_code' # 0
            /\ categories' = << >>]_vars
    /\ [][pc = "exited" => pc' = "exited"]_vars
    /\ [][(pc = "menu" /\ pc' = "exited") => exit_code' = 0]_vars

\* the program has ended on a course whose bank file is absent
C14_Witness ==
    /\ pc = "exited"
    /\ filepath \in { "basic", "advanced" }
    /\ exit_code = 1
    /\ categories = << >>
    /\ screens = << >>

----------------------------------------------------------------------------
(* C15: an answer is counted once.                                         *)

\* the record an incorrect answer with key k is to leave in the log
ExpectedRecord(k) ==
    [question |-> questions[current_index + 1],
     your_answer |-> current_choices[IntOf(k)],
     correct_answer |-> questions[current_index + 1].answer]

\* C15: each answer key accepted at a question does exactly one of two
\* things: the score goes up by one and the log stays as it is, or the
\* score stays and the log gains exactly one record at its end, made of
\* the question at the cursor, the text of the selected slot and the text
\* of the correct answer; the records already in the log are not altered.
C15_CountedOnce ==
    [][ \A k \in AnswerKeys :
          QuestionKey(k) =>
            \/ /\ score' = score + 1
               /\ questions_answered_incorrectly' = questions_answered_incorrectly
            \/ /\ score' = score
               /\ questions_answered_incorrectly'
                    = Append(questions_answered_incorrectly, ExpectedRecord(k)) ]_vars

\* a question is on screen after one answer of each kind: one was counted
\* and one was logged with the selected text next to the correct one
C15_Witness ==
    /\ pc = "question"
    /\ current_index = 2
    /\ score = 1
    /\ Len(questions_answered_incorrectly) = 1
    /\ questions_answered_incorrectly[1].your_answer
         # questions_answered_incorrectly[1].correct_answer

----------------------------------------------------------------------------
(* C16: the cursor and the end of the run.                                 *)

IsQuestionView(v) == v.view = "question"

\* the positions of the working list show_question has presented in this
\* run, in the order they were presented
Presented(scr) ==
    LET shown == SelectSeq(scr, IsQuestionView)
    IN [i \in 1..Len(shown) |-> shown[i].arg]

\* the positions 0 .. n-1 in list order, each once
Positions(n) == [i \in 1..n |-> i - 1]

\* C16: in a run over N >= 1 questions the cursor goes up by exactly one
\* with each submitted answer and changes at no other step of the run; the
\* results are on screen exactly when the cursor equals N, which is after
\* exactly N answers; the positions presented are 0, 1, ... in list order,
\* each once: up to the cursor while a question is on screen, all N of them
\* when the run is complete.
C16_CursorAndCompletion ==
    /\ [][~EntersRun =>
            \/ /\ current_index' = current_index
               /\ Panels(screens') = Panels(screens)
            \/ /\ pc = "question"
               /\ current_index' = current_index + 1
               /\ Panels(screens') = Panels(screens) + 1]_vars
    /\ []((InRun /\ Len(questions) >= 1) =>
            /\ Panels(screens) = current_index
            /\ pc \in { "results", "review" } <=> current_index = Len(questions)
            /\ pc = "question" =>
                  /\ current_index < Len(questions)
                  /\ Presented(screens) = Positions(current_index + 1)
            /\ pc \in { "results", "review" } =>
                  Presented(screens) = Positions(Len(questions)))

\* a run cut to the limit is complete: every one of its positions was
\* presented and answered, and 'q' was never pressed
C16_Witness ==
    /\ pc = "results"
    /\ Len(questions) = QuizLimit
    /\ Len(pool) > QuizLimit
    /\ current_index = QuizLimit
    /\ Panels(screens) = QuizLimit

----------------------------------------------------------------------------
(* C17: a quit comes after the answer is counted.                          *)

\* the last thing drawn is a Correct! or Wrong! panel
FeedbackOnScreen ==
    /\ screens # << >>
    /\ screens[Len(screens)].view \in { "correct", "wrong" }

\* C17: 'q' aborts a run only while a question is on screen awaiting its
\* answer.  The step that submits an answer counts it and advances the
\* cursor before the next key is read, and it never ends the run as
\* aborted; no key is awaited while the feedback is on screen; so when a
\* 'q' takes effect every submitted answer has been counted, the cursor
\* is past it, and the quit changes neither the score, the log nor the
\* cursor.
C17_QuitAfterCounting ==
    /\ [][ \A k \in AnswerKeys :
            QuestionKey(k) =>
              /\ current_index' = current_index + 1
              /\ score' + Len(questions_answered_incorrectly')
                   = score + Len(questions_answered_incorrectly) + 1
              /\ pc' # "menu" ]_vars
    /\ [][ QuestionKey("q") =>
              /\ screens[Len(screens)] = View("question", current_index)
              /\ Panels(screens) = current_index
              /\ score + Len(questions_answered_incorrectly) = current_index
              /\ score' = score
              /\ questions_answered_incorrectly' = questions_answered_incorrectly
              /\ current_index' = current_index ]_vars
    /\ [](pc \in { "question", "results", "review", "menu" } => ~FeedbackOnScreen)

\* a run aborted at its second question or later: the panel of the answer
\* before it was drawn, the answer is in the counts and the cursor is past it
C17_Witness ==
    /\ pc = "menu"
    /\ Len(screens) >= 3
    /\ screens[Len(screens)] = View("question", current_index)
    /\ screens[Len(screens) - 1].view \in { "correct", "wrong" }
    /\ screens[Len(screens) - 1].arg = current_index - 1
    /\ score + Len(questions_answered_incorrectly) = current_index

----------------------------------------------------------------------------
(* C18: the ordering held belongs to the question on screen.               *)

\* C18: whenever an answer key can be resolved, that is whenever a
\* question is on screen, the ordering held in current_choices has four
\* entries and is a permutation of the four choices of the question at the
\* cursor, the one show_question made when it presented that question; the
\* ordering of an earlier question or run is never the one a key is
\* resolved against.
C18_OrderingOfCurrentQuestion ==
    pc = "question" =>
        /\ current_index < Len(questions)
        /\ Len(current_choices) = 4
        /\ SameBag(current_choices, ChoicesOf(questions[current_index + 1]))
        /\ screens[Len(screens)] = View("question", current_index)

\* the second or a later question of a run is on screen and its choices
\* are not those of the question before it
C18_Witness ==
    /\ pc = "question"
    /\ current_index >= 1
    /\ ~SameBag(ChoicesOf(questions[current_index]),
                ChoicesOf(questions[current_index + 1]))
    /\ SameBag(current_choices, ChoicesOf(questions[current_index + 1]))

----------------------------------------------------------------------------
(* C19: a question with a field missing.                                   *)

\* C19: a question that lacks a distractor field does not crash the
\* session: presenting it leads to a defined state from which the run goes
\* on, and the state in which the KeyError of the missing field has ended
\* the process is never reached.
C19_MalformedQuestionHandled == ~(pc = "crashed" /\ error = "KeyError")

----------------------------------------------------------------------------
(* C20: the accounting of a run.                                           *)

\* a key is awaited inside a run
AwaitsKeyInRun == pc \in { "question", "results", "review" }

\* C20: wherever a key is awaited in a run the cursor lies between 0 and
\* the length of the working list and the score plus the number of
\* incorrect-answer records equals the cursor; with the results or the
\* review on screen the score plus the number of review entries equals
\* the total, and the score lies between 0 and the total.
C20_RunAccounting ==
    AwaitsKeyInRun =>
        /\ 0 <= current_index
        /\ current_index <= Len(questions)
        /\ score + Len(questions_answered_incorrectly) = current_index
        /\ pc \in { "results", "review" } =>
              /\ score + Len(questions_answered_incorrectly) = Len(questions)
              /\ 0 <= score
              /\ score <= Len(questions)
        /\ pc = "review" =>
              screens[Len(screens)]
                = View("review", Len(questions) - score)

\* the results of a run of two questions, one answered right and one wrong
C20_Witness ==
    /\ pc = "results"
    /\ Len(questions) = 2
    /\ score = 1
    /\ Len(questions_answered_incorrectly) = 1

----------------------------------------------------------------------------
(* C21: a key that is no answer and no quit.                               *)

\* the keys run_quiz has no branch for
OtherKeys == Keys \ (AnswerKeys \cup { "q" })

\* C21: while a question awaits its answer a key other than '1', '2', '3',
\* '4' and 'q' is read and changes nothing: whatever the step of that key
\* may do, the cursor, the score, the log, the working list, the held
\* ordering and what is on screen are as they were, and the session waits
\* on the same question.
C21_OtherKeyChangesNothing ==
    pc = "question" =>
        \A k \in OtherKeys :
            /\ ENABLED QuestionKey(k)
            /\ ~ENABLED (QuestionKey(k) /\ vars' # vars)

\* the second question of a run awaits its answer after a wrong one, its
\* answer is not in the first slot, and the key 'x' can be pressed
C21_Witness ==
    /\ pc = "question"
    /\ current_index = 1
    /\ score = 0
    /\ Len(questions_answered_incorrectly) = 1
    /\ current_choices[1] # questions[2].answer
    /\ ENABLED QuestionKey("x")

====
